---- MODULE Spec2Model ----
(***************************************************************************)
(* Bootstrap layer of the ArchiveNET API: the long-lived Redis connection  *)
(* (src/config/redis.ts), the Arweave/Warp bootstrap (src/config/          *)
(* arweave.ts) and the memoized Redis health probe (src/utils/helper.ts).  *)
(***************************************************************************)
EXTENDS Integers, Sequences, FiniteSets, TLC

\* ------------------------------------------------------------------ bounds
MaxEvents == 4      \* 'ready'/'error' events delivered to the long-lived connection
MaxRuns == 2        \* bootstrap runs against the same storage
NumCallers == 2     \* concurrent callers of checkRedisConnectivity
MaxProbes == 3      \* probe connections opened in one behaviour
MaxNow == 34000     \* last clock value (ms) the model observes

\* ------------------------------------------------------- program constants
HealthTtlMs == 30000
ProbeTimeoutMs == 2000

\* --------------------------------------------------------------- the inputs
Unset == "<unset>"
Truthy_Always(v) == TRUE

Truthy(v) == v \notin {Unset, ""}

\* NODE_ENV is kept as its characters grouped in tokens so that trim() acts.
NodeEnvValues ==
  { <<>>, <<"production">>, <<" ", "production", " ">>, <<"development">> }
NodeEnvUnset == <<>>

RECURSIVE TrimStart(_)
TrimStart(s) ==
  IF s # <<>> /\ Head(s) = " " THEN TrimStart(Tail(s)) ELSE s

RECURSIVE TrimEnd(_)
TrimEnd(s) ==
  IF s # <<>> /\ s[Len(s)] = " " THEN TrimEnd(SubSeq(s, 1, Len(s) - 1)) ELSE s

Trim(s) == TrimEnd(TrimStart(s))

IsProductionEnv_NoTrim(nodeEnv) == nodeEnv = <<"production">>

IsProductionEnv_AnyValue(nodeEnv) == nodeEnv # <<>>

IsProductionEnv(nodeEnv) ==
  nodeEnv # NodeEnvUnset /\ Trim(nodeEnv) = <<"production">>

\* ------------------------------------------------------ keys and addresses
KeyIds == {"k1", "k2", "k3"}
GeneratedKeyIds == {"k2", "k3"}
NoKey == [kty |-> "", n |-> ""]
JWK(k) == [kty |-> "RSA", n |-> k]

IsJWK(w) == w.kty = "RSA" /\ w.n \in KeyIds

\* warp.arweave.wallets.jwkToAddress: the address is a digest of the modulus.
AddressOfKey == [k \in KeyIds |->
  CASE k = "k1" -> "A1" [] k = "k2" -> "A2" [] OTHER -> "A3"]

JwkToAddress(w) ==
  IF IsJWK(w) THEN [ok |-> TRUE, address |-> AddressOfKey[w.n]]
  ELSE [ok |-> FALSE, address |-> ""]

\* ------------------------------------------------------------ JSON on disk
JsonStringify(w) ==
  IF w.n = "" THEN <<"{", "}">> ELSE <<"{", "kty", w.kty, "n", w.n, "}">>

JsonParse(text) ==
  IF text = <<"{", "}">> THEN [ok |-> TRUE, value |-> NoKey]
  ELSE IF Len(text) = 6 /\ text[1] = "{" /\ text[2] = "kty" /\ text[4] = "n"
          /\ text[6] = "}"
    THEN [ok |-> TRUE, value |-> [kty |-> text[3], n |-> text[5]]]
    ELSE [ok |-> FALSE, value |-> NoKey]

Missing == [exists |-> FALSE, data |-> <<>>]
File(text) == [exists |-> TRUE, data |-> text]
Truncated == <<"{", "kty">>

ProdWalletPath == "/secrets/wallet.json"
DevWalletPath == "./dev-wallet.json"
Paths == {ProdWalletPath, DevWalletPath}

ProdFiles ==
  { Missing, File(Truncated), File(<<"{", "}">>),
    File(JsonStringify(JWK("k1"))), File(JsonStringify(JWK("k2"))) }
DevFiles ==
  { Missing, File(Truncated), File(<<"{", "}">>), File(JsonStringify(JWK("k1"))) }

\* readFile(path, "utf-8") followed by JSON.parse
ReadJson(fs, path) ==
  IF path \notin DOMAIN fs \/ ~fs[path].exists THEN [ok |-> FALSE, value |-> NoKey]
  ELSE JsonParse(fs[path].data)

Envs ==
  [ NODE_ENV : NodeEnvValues,
    REDIS_URL : {Unset, "redis://cache:6379"},
    SERVICE_WALLET_ADDRESS : {Unset, "A1", "A2"},
    ARWEAVE_WALLET_PATH : {Unset, ProdWalletPath} ]

\* ------------------------------------------------------------------- state
VARIABLES
  env,            \* process.env, fixed for the life of the storage
  files,          \* the file system: path -> [exists, data]
  run,            \* number of the current process (bootstrap run)
  pc,             \* position of initializeArweave
  isProduction,   \* arweave.ts:63
  connection,     \* the long-lived ioredis client: "none" | "open"
  hasLoggedDisconnection,  \* redis.ts:34
  events,         \* the events delivered to the long-lived client, in order
  lostWarnings,   \* number of "Redis connection lost" warnings (redis.ts:44)
  failWarnings,   \* number of "initial connection failed" warnings (redis.ts:57)
  redisLocal,     \* the local `redis` of initializeRedis (redis.ts:21)
  pingOutcome,    \* "none" | "ok" | "failed" | "noclient"
  redis,          \* what initializeRedis returned to initializeArweave
  arlocal,        \* outcome of the local reachability probe, "notrun" if none
  localProbe,     \* how checkArLocalRunning settled and the state of its timer
  warp,           \* the Warp instance being built
  wallet,         \* the `wallet` local of initializeArweave
  config,         \* the value initializeArweave resolved with
  error,          \* the error initializeArweave rejected with
  filesRead,      \* paths read in this run
  devFound,       \* what the read of ./dev-wallet.json found in this run
  generated,      \* wallets.generate() calls in this run
  writes,         \* writeFile calls in this run
  prev            \* summary of the previous run against the same storage

bootVars ==
  << env, files, run, pc, isProduction, connection, hasLoggedDisconnection,
     events, lostWarnings, failWarnings, redisLocal, pingOutcome, redis,
     arlocal, localProbe, warp,
     wallet, config, error, filesRead, devFound, generated, writes, prev >>

\* The state of the health probe (helper.ts:321-402).
VARIABLES
  now,               \* Date.now()
  healthCheckCache,  \* helper.ts:322-330: [set, result, timestamp]
  hpc,               \* per caller: "idle" | "awaiting" | "returned" | "threw"
  testRedis,         \* per caller: index in probes of its probe client, 0 if none
  startedAt,         \* per caller: when its 2 s timer was armed
  ret,               \* per caller: the snapshot the call resolved with
  exitPath,          \* per caller: the path the call left by
  probes,            \* every probe client constructed: "open" | "closed"
  late,              \* per caller: the contender its settled race left pending
  overlapped         \* two calls have been awaiting their probes at once

healthVars ==
  << now, healthCheckCache, hpc, testRedis, startedAt, ret, exitPath, probes,
     late, overlapped >>

\* The state of the HTTP layer.
VARIABLES
  mw,                \* one request passing verifyContractHashMiddleware
  dp,                \* POST /contract: the instances row of a user and its requests
  rt                 \* one request to the API-key or instance router

apiVars == << mw, dp, rt >>

NoWarp == [network |-> "none", port |-> 0, kv |-> "none", deploy |-> FALSE]
NoConfig ==
  [returned |-> FALSE, warp |-> NoWarp, wallet |-> NoKey, redis |-> "undefined"]
NoError == [kind |-> "none", expected |-> "", loaded |-> ""]
NoLocalProbe == [result |-> "none", timer |-> "none"]
NoPrev ==
  [exists |-> FALSE, devFound |-> "unread", returned |-> FALSE, wallet |-> NoKey]

ProcessStart ==
  /\ pc = "start"
  /\ isProduction = FALSE
  /\ connection = "none"
  /\ hasLoggedDisconnection = FALSE
  /\ events = <<>>
  /\ lostWarnings = 0
  /\ failWarnings = 0
  /\ redisLocal = "undefined"
  /\ pingOutcome = "none"
  /\ redis = "pending"
  /\ arlocal = "notrun"
  /\ localProbe = NoLocalProbe
  /\ warp = NoWarp
  /\ wallet = NoKey
  /\ config = NoConfig
  /\ error = NoError
  /\ filesRead = {}
  /\ devFound = "unread"
  /\ generated = 0
  /\ writes = 0

BootInit ==
  /\ env \in Envs
  /\ \E pf \in ProdFiles, df \in DevFiles :
       files = [p \in Paths |-> IF p = ProdWalletPath THEN pf ELSE df]
  /\ run = 1
  /\ prev = NoPrev
  /\ ProcessStart

\* The order of the awaited steps of initializeArweave: initializeRedis
\* (arweave.ts:66), network selection (71-125) with the local probe in
\* development (88), the deploy plugin (127), then the wallet (129-196).
StepAfter_WalletFirst(step, prod) ==
  CASE step = "redis" -> "wallet"
    [] step = "network" -> IF prod THEN "plugin" ELSE "arlocal"
    [] step = "arlocal" -> "plugin"
    [] OTHER -> "wallet"

StepAfter(step, prod) ==
  CASE step = "redis" -> "network"
    [] step = "network" -> IF prod THEN "plugin" ELSE "arlocal"
    [] step = "arlocal" -> "plugin"
    [] OTHER -> "wallet"

\* ------------------------------------------- initializeRedis (redis.ts:13)
\* redis.ts:14-17 and the evaluation of isProduction at arweave.ts:63
Start ==
  /\ pc = "start"
  /\ isProduction' = IsProductionEnv(env.NODE_ENV)
  /\ IF ~Truthy(env.REDIS_URL)
       THEN /\ redis' = "undefined"
            /\ pingOutcome' = "noclient"
            /\ pc' = StepAfter("redis", isProduction')
       ELSE /\ pc' = "construct"
            /\ UNCHANGED << redis, pingOutcome >>
  /\ UNCHANGED << env, files, run, connection, hasLoggedDisconnection,
                  events, lostWarnings, failWarnings, redisLocal, arlocal, localProbe,
                  warp, wallet, config, error, filesRead, devFound,
                  generated, writes, prev, healthVars, apiVars >>

\* redis.ts:62: the value the catch block returns
CatchReturn(local) == local

\* redis.ts:24-47: new Redis(...) succeeds, both handlers are registered
ConstructOk ==
  /\ pc = "construct"
  /\ connection' = "open"
  /\ redisLocal' = "client"
  /\ hasLoggedDisconnection' = FALSE
  /\ pc' = "ping"
  /\ UNCHANGED << env, files, run, isProduction, events, lostWarnings,
                  failWarnings, pingOutcome, redis, arlocal, localProbe, warp, wallet,
                  config, error, filesRead, devFound, generated, writes,
                  prev, healthVars, apiVars >>

\* redis.ts:24 throws, redis.ts:56-63 catches with `redis` still unassigned
ConstructThrows ==
  /\ pc = "construct"
  /\ redis' = CatchReturn(redisLocal)
  /\ failWarnings' = failWarnings + 1
  /\ pingOutcome' = "noclient"
  /\ pc' = StepAfter("redis", isProduction)
  /\ UNCHANGED << env, files, run, isProduction, connection,
                  hasLoggedDisconnection, events, lostWarnings,
                  redisLocal, arlocal, localProbe, warp, wallet, config,
                  error, filesRead, devFound, generated, writes, prev,
                  healthVars, apiVars >>

\* redis.ts:36-39
ReadyHandler(flag) == FALSE

\* redis.ts:43: does this error event log the warning?
ErrorLogs_Always(flag) == TRUE

ErrorLogs(flag) == ~flag

OnReady ==
  /\ connection = "open"
  /\ Len(events) < MaxEvents
  /\ events' = Append(events, "ready")
  /\ hasLoggedDisconnection' = ReadyHandler(hasLoggedDisconnection)
  /\ UNCHANGED << env, files, run, pc, isProduction, connection,
                  lostWarnings, failWarnings, redisLocal, pingOutcome,
                  redis, arlocal, localProbe, warp, wallet, config, error, filesRead,
                  devFound, generated, writes, prev, healthVars, apiVars >>

\* redis.ts:41-47
OnError ==
  /\ connection = "open"
  /\ Len(events) < MaxEvents
  /\ events' = Append(events, "error")
  /\ IF ErrorLogs(hasLoggedDisconnection)
       THEN /\ lostWarnings' = lostWarnings + 1
            /\ hasLoggedDisconnection' = TRUE
       ELSE UNCHANGED << lostWarnings, hasLoggedDisconnection >>
  /\ UNCHANGED << env, files, run, pc, isProduction, connection,
                  failWarnings, redisLocal, pingOutcome, redis, arlocal, localProbe,
                  warp, wallet, config, error, filesRead, devFound,
                  generated, writes, prev, healthVars, apiVars >>

\* redis.ts:52-55: the ping is answered, which needs a connection that is ready
PingOk ==
  /\ pc = "ping"
  /\ events # <<>> /\ events[Len(events)] = "ready"
  /\ pingOutcome' = "ok"
  /\ redis' = redisLocal
  /\ pc' = StepAfter("redis", isProduction)
  /\ UNCHANGED << env, files, run, isProduction, connection,
                  hasLoggedDisconnection, events, lostWarnings,
                  failWarnings, redisLocal, arlocal, localProbe, warp, wallet, config,
                  error, filesRead, devFound, generated, writes, prev,
                  healthVars, apiVars >>

\* redis.ts:52 rejects (command timeout, retries exhausted), redis.ts:56-63
PingFail ==
  /\ pc = "ping"
  /\ pingOutcome' = "failed"
  /\ redis' = CatchReturn(redisLocal)
  /\ failWarnings' = failWarnings + 1
  /\ pc' = StepAfter("redis", isProduction)
  /\ UNCHANGED << env, files, run, isProduction, connection,
                  hasLoggedDisconnection, events, lostWarnings,
                  redisLocal, arlocal, localProbe, warp, wallet, config,
                  error, filesRead, devFound, generated, writes, prev,
                  healthVars, apiVars >>

\* --------------------------------------- initializeArweave (arweave.ts:62)
\* arweave.ts:73, 91, 115: `redis ? ...useKVStorageFactory(RedisCache) : ...`
KvStorageFor(handle) == IF handle = "client" THEN "redis" ELSE "leveldb"

\* arweave.ts:87
ARLOCAL_PORT == 8080

\* arweave.ts:71-84, or the hand-over to the local probe at arweave.ts:85-88
SelectNetwork ==
  /\ pc = "network"
  /\ IF isProduction
       THEN warp' = [network |-> "mainnet", port |-> 0,
                     kv |-> KvStorageFor(redis), deploy |-> FALSE]
       ELSE warp' = warp
  /\ pc' = StepAfter("network", isProduction)
  /\ UNCHANGED << env, files, run, isProduction, connection,
                  hasLoggedDisconnection, events, lostWarnings,
                  failWarnings, redisLocal, pingOutcome, redis, arlocal, localProbe,
                  wallet, config, error, filesRead, devFound, generated,
                  writes, prev, healthVars, apiVars >>

\* The ways the request to http://localhost:<port>/info can end: an OK
\* response, a non-OK response, a network error, or no answer within 1 s.
ArLocalOutcomes == {"ok", "notok", "error", "timeout"}

\* helper.ts:250-263: how the call settles for each of them, and what has
\* become of the 1 s abort timer (helper.ts:252, 261) when it does
CheckArLocalRunning_AnyResponse(outcome) ==
  [status |-> "resolved", value |-> outcome \in {"ok", "notok"},
   timer |-> "cleared"]

CheckArLocalRunning_NoCatch(outcome) ==
  IF outcome \in {"error", "timeout"}
    THEN [status |-> "rejected", value |-> FALSE, timer |-> "cleared"]
    ELSE [status |-> "resolved", value |-> outcome = "ok", timer |-> "cleared"]

CheckArLocalRunning_NoAbort(outcome) ==
  IF outcome = "timeout"
    THEN [status |-> "pending", value |-> FALSE, timer |-> "none"]
    ELSE [status |-> "resolved", value |-> outcome = "ok", timer |-> "none"]

CheckArLocalRunning_ClearOnResponse(outcome) ==
  [status |-> "resolved", value |-> outcome = "ok",
   timer |-> IF outcome \in {"ok", "notok"} THEN "cleared"
             ELSE IF outcome = "timeout" THEN "fired" ELSE "armed"]

CheckArLocalRunning(outcome) ==
  [status |-> "resolved", value |-> outcome = "ok", timer |-> "cleared"]

\* arweave.ts:88-124
ProbeArLocal ==
  /\ pc = "arlocal"
  /\ arlocal = "notrun"
  /\ \E o \in ArLocalOutcomes :
       LET isArLocalRunning == CheckArLocalRunning(o)
       IN /\ arlocal' = o
          /\ localProbe' =
               [result |-> CASE isArLocalRunning.status = "rejected" -> "threw"
                             [] isArLocalRunning.status = "pending" -> "pending"
                             [] isArLocalRunning.value -> "true"
                             [] OTHER -> "false",
                timer |-> isArLocalRunning.timer]
          /\ CASE isArLocalRunning.status = "resolved" ->
                    /\ warp' = IF isArLocalRunning.value
                                 THEN [network |-> "local", port |-> ARLOCAL_PORT,
                                       kv |-> KvStorageFor(redis), deploy |-> FALSE]
                                 ELSE [network |-> "testnet", port |-> 0,
                                       kv |-> KvStorageFor(redis), deploy |-> FALSE]
                    /\ pc' = StepAfter("arlocal", isProduction)
                    /\ error' = error
               [] isArLocalRunning.status = "rejected" ->
                    /\ error' = [kind |-> "probe", expected |-> "", loaded |-> ""]
                    /\ pc' = "failed"
                    /\ warp' = warp
               [] OTHER -> UNCHANGED << warp, pc, error >>
  /\ UNCHANGED << env, files, run, isProduction, connection,
                  hasLoggedDisconnection, events, lostWarnings,
                  failWarnings, redisLocal, pingOutcome, redis, wallet,
                  config, filesRead, devFound, generated, writes, prev,
                  healthVars, apiVars >>

\* arweave.ts:127: warp.use(new DeployPlugin()), outside every branch
WithDeployPlugin_MainnetOnly(w) == [w EXCEPT !.deploy = (w.network = "mainnet")]

WithDeployPlugin(w) == [w EXCEPT !.deploy = TRUE]

UseDeployPlugin ==
  /\ pc = "plugin"
  /\ warp' = WithDeployPlugin(warp)
  /\ pc' = StepAfter("plugin", isProduction)
  /\ UNCHANGED << env, files, run, isProduction, connection,
                  hasLoggedDisconnection, events, lostWarnings,
                  failWarnings, redisLocal, pingOutcome, redis, arlocal, localProbe,
                  wallet, config, error, filesRead, devFound, generated,
                  writes, prev, healthVars, apiVars >>

\* arweave.ts:134
HasProdVars_Either(e) ==
  Truthy(e.SERVICE_WALLET_ADDRESS) \/ Truthy(e.ARWEAVE_WALLET_PATH)

HasProdVars(e) ==
  Truthy(e.SERVICE_WALLET_ADDRESS) /\ Truthy(e.ARWEAVE_WALLET_PATH)

\* helper.ts:280-303: "ok", "mismatch" (the thrown Error names both
\* addresses) or "threw" (jwkToAddress rejected)
ValidateWalletAddress_NoCompare(w, expectedAddress) ==
  LET a == JwkToAddress(w)
  IN IF ~a.ok THEN [outcome |-> "threw", expected |-> "", loaded |-> ""]
     ELSE [outcome |-> "ok", expected |-> expectedAddress, loaded |-> a.address]

ValidateWalletAddress(w, expectedAddress) ==
  LET a == JwkToAddress(w)
  IN IF ~a.ok THEN [outcome |-> "threw", expected |-> "", loaded |-> ""]
     ELSE IF a.address # expectedAddress
       THEN [outcome |-> "mismatch", expected |-> expectedAddress,
             loaded |-> a.address]
       ELSE [outcome |-> "ok", expected |-> expectedAddress, loaded |-> a.address]

\* arweave.ts:154-159: whatever was caught, one fixed Error is thrown
ProductionCatch_Swallow(caught) == [kind |-> "none", expected |-> "", loaded |-> ""]

ProductionCatch(caught) == [kind |-> "load", expected |-> "", loaded |-> ""]

\* arweave.ts:161-163
ConfigurationError == [kind |-> "config", expected |-> "", loaded |-> ""]

Returned(w) == [returned |-> TRUE, warp |-> warp, wallet |-> w, redis |-> redis]

\* arweave.ts:132-164 and 198-206
LoadProductionWallet ==
  /\ pc = "wallet"
  /\ isProduction
  /\ IF HasProdVars(env)
       THEN LET walletPath == env.ARWEAVE_WALLET_PATH
                r == ReadJson(files, walletPath)
                v == ValidateWalletAddress(r.value, env.SERVICE_WALLET_ADDRESS)
            IN /\ filesRead' = filesRead \cup {walletPath}
               /\ IF r.ok /\ v.outcome = "ok"
                    THEN /\ wallet' = r.value
                         /\ config' = Returned(r.value)
                         /\ error' = error
                         /\ pc' = "done"
                    ELSE /\ wallet' = IF r.ok THEN r.value ELSE wallet
                         /\ error' = ProductionCatch(
                              IF r.ok THEN v
                              ELSE [outcome |-> "unreadable", expected |-> "",
                                    loaded |-> ""])
                         /\ config' = config
                         /\ pc' = "failed"
       ELSE /\ error' = ConfigurationError
            /\ pc' = "failed"
            /\ UNCHANGED << wallet, config, filesRead >>
  /\ UNCHANGED << env, files, run, isProduction, connection,
                  hasLoggedDisconnection, events, lostWarnings,
                  failWarnings, redisLocal, pingOutcome, redis, arlocal, localProbe,
                  warp, devFound, generated, writes, prev, healthVars, apiVars >>

\* arweave.ts:187: what writeFile leaves at ./dev-wallet.json
PersistDevWallet_Skip(fs, w) == fs

PersistDevWallet(fs, w) == [fs EXCEPT ![DevWalletPath] = File(JsonStringify(w))]

\* arweave.ts:132, 165: the `else` of `if (isProduction)`
UsesDevWallet_Always(prod) == TRUE

UsesDevWallet(prod) == ~prod

\* arweave.ts:169-177: the try block succeeds when the file is read, parsed
\* and an address is derived from it; the address is only logged
DevWalletUsable_Validated(fs, e) ==
  LET r == ReadJson(fs, DevWalletPath)
      a == JwkToAddress(r.value)
  IN /\ r.ok /\ a.ok
     /\ Truthy(e.SERVICE_WALLET_ADDRESS) => a.address = e.SERVICE_WALLET_ADDRESS

DevWalletUsable(fs, e) ==
  LET r == ReadJson(fs, DevWalletPath)
      a == JwkToAddress(r.value)
  IN r.ok /\ a.ok

\* arweave.ts:178-196: nothing catches a rejection inside the catch block, so
\* it becomes the rejection of initializeArweave
DevFailure_Swallowed(kind) == [kind |-> "none", expected |-> "", loaded |-> ""]

DevFailure(kind) == [kind |-> kind, expected |-> "", loaded |-> ""]

\* arweave.ts:165-196 and 198-206
LoadDevelopmentWallet ==
  /\ pc = "wallet"
  /\ UsesDevWallet(isProduction)
  /\ filesRead' = filesRead \cup {DevWalletPath}
  /\ devFound' = IF ~files[DevWalletPath].exists THEN "absent"
                 ELSE IF JwkToAddress(ReadJson(files, DevWalletPath).value).ok
                   THEN "loaded" ELSE "unusable"
  /\ LET r == ReadJson(files, DevWalletPath)
         a == JwkToAddress(r.value)
     IN IF DevWalletUsable(files, env)
          THEN /\ wallet' = r.value
               /\ config' = Returned(r.value)
               /\ pc' = "done"
               /\ UNCHANGED << files, error, generated, writes >>
          ELSE \/ \* arweave.ts:182 rejects
                  /\ generated' = generated + 1
                  /\ error' = DevFailure("generate")
                  /\ wallet' = IF r.ok THEN r.value ELSE wallet
                  /\ pc' = "failed"
                  /\ UNCHANGED << files, config, writes >>
               \/ \* arweave.ts:183 rejects
                  \E k \in GeneratedKeyIds :
                    /\ generated' = generated + 1
                    /\ wallet' = JWK(k)
                    /\ error' = DevFailure("derive")
                    /\ pc' = "failed"
                    /\ UNCHANGED << files, config, writes >>
               \/ \E k \in GeneratedKeyIds :
                    /\ generated' = generated + 1
                    /\ writes' = writes + 1
                    /\ wallet' = JWK(k)
                    /\ \/ \* arweave.ts:187 rejects
                          /\ error' = DevFailure("write")
                          /\ pc' = "failed"
                          /\ UNCHANGED << files, config >>
                       \/ /\ files' = PersistDevWallet(files, JWK(k))
                          /\ config' = Returned(JWK(k))
                          /\ pc' = "done"
                          /\ error' = error
  /\ UNCHANGED << env, run, isProduction, connection,
                  hasLoggedDisconnection, events, lostWarnings,
                  failWarnings, redisLocal, pingOutcome, redis, arlocal, localProbe,
                  warp, prev, healthVars, apiVars >>

\* The process exits and a new one boots against the same environment and
\* the same storage (dev-wallet.json is kept "for reuse across restarts").
Restart ==
  /\ pc \in {"done", "failed"}
  /\ run < MaxRuns
  /\ run' = run + 1
  /\ prev' = [exists |-> TRUE, devFound |-> devFound,
              returned |-> config.returned, wallet |-> config.wallet]
  /\ pc' = "start"
  /\ isProduction' = FALSE
  /\ connection' = "none"
  /\ hasLoggedDisconnection' = FALSE
  /\ events' = <<>>
  /\ lostWarnings' = 0
  /\ failWarnings' = 0
  /\ redisLocal' = "undefined"
  /\ pingOutcome' = "none"
  /\ redis' = "pending"
  /\ arlocal' = "notrun"
  /\ localProbe' = NoLocalProbe
  /\ warp' = NoWarp
  /\ wallet' = NoKey
  /\ config' = NoConfig
  /\ error' = NoError
  /\ filesRead' = {}
  /\ devFound' = "unread"
  /\ generated' = 0
  /\ writes' = 0
  /\ UNCHANGED << env, files, healthVars, apiVars >>

BootNext ==
  \/ Start
  \/ ConstructOk
  \/ ConstructThrows
  \/ OnReady
  \/ OnError
  \/ PingOk
  \/ PingFail
  \/ SelectNetwork
  \/ ProbeArLocal
  \/ UseDeployPlugin
  \/ LoadProductionWallet
  \/ LoadDevelopmentWallet
  \/ Restart

\* ----------------------------------- checkRedisConnectivity (helper.ts:332)
vars == << bootVars, healthVars, apiVars >>

Callers == 1..NumCallers
TickMs == {2000, 28000}

NoSnapshot == [configured |-> FALSE, connected |-> FALSE, status |-> "none"]
NotConfigured_AsProbeFailure ==
  [configured |-> TRUE, connected |-> FALSE, status |-> "disconnected"]

NotConfigured ==
  [configured |-> FALSE, connected |-> FALSE, status |-> "not configured"]

Healthy_NotConfigured ==
  [configured |-> FALSE, connected |-> TRUE, status |-> "ready"]

Healthy == [configured |-> TRUE, connected |-> TRUE, status |-> "ready"]

Disconnected_AsHealthy ==
  [configured |-> TRUE, connected |-> TRUE, status |-> "ready"]

Disconnected ==
  [configured |-> TRUE, connected |-> FALSE, status |-> "disconnected"]

EmptyCache == [set |-> FALSE, result |-> NoSnapshot, timestamp |-> 0]

\* helper.ts:354, 383, 394: `healthCheckCache = { result, timestamp: Date.now() }`
Stored_KeepTimestamp(result, t) ==
  [set |-> TRUE, result |-> result,
   timestamp |-> IF healthCheckCache.set THEN healthCheckCache.timestamp ELSE t]

Stored(result, t) == [set |-> TRUE, result |-> result, timestamp |-> t]

HealthStart ==
  /\ now = 0
  /\ healthCheckCache = EmptyCache
  /\ hpc = [c \in Callers |-> "idle"]
  /\ testRedis = [c \in Callers |-> 0]
  /\ startedAt = [c \in Callers |-> 0]
  /\ ret = [c \in Callers |-> NoSnapshot]
  /\ exitPath = [c \in Callers |-> "none"]
  /\ probes = <<>>
  /\ late = [c \in Callers |-> "none"]
  /\ overlapped = FALSE

\* helper.ts:339
IsFresh_Inclusive(cache, t) == cache.set /\ t - cache.timestamp <= HealthTtlMs

IsFresh_Never(cache, t) == FALSE

IsFresh_HealthyOnly(cache, t) ==
  cache.set /\ t - cache.timestamp < HealthTtlMs /\ cache.result.connected

IsFresh(cache, t) == cache.set /\ t - cache.timestamp < HealthTtlMs

\* helper.ts:339-341: a hit returns without assigning the slot
AfterHit_Refresh(cache, t) == [cache EXCEPT !.timestamp = t]

AfterHit(cache, t) == cache

\* helper.ts:362-364: the probe client's own 'error' handler is empty; the
\* flag of redis.ts:34 is a local of initializeRedis and out of its reach
ProbeErrorHandler_Logging(flag) == TRUE

ProbeErrorHandler(flag) == flag

\* helper.ts:368-373: Promise.race settles once; the contender that
\* completes later finds the race settled and assigns nothing
AfterLate_Overwrite(cache, t) == Stored(Disconnected, t)

AfterLate(cache, t) == cache

\* the contender still pending when the race settles by `path`
Loser(path) == IF path = "timeout" THEN "ping" ELSE "timer"

\* helper.ts:396-401: the paths on which the probe client is disconnected
DisconnectsOn_SuccessOnly(path) == path = "success"

DisconnectsOn(path) == path \in {"success", "error", "timeout"}

\* helper.ts:359, 399: the client the finally block disconnects is the one
\* this call constructed
ProbeToRelease_Latest(c) == Len(probes)

ProbeToRelease(c) == testRedis[c]

\* helper.ts:338-373: the call up to its first suspension
Call(c) ==
  /\ hpc[c] = "idle"
  /\ IF IsFresh(healthCheckCache, now)
       THEN /\ hpc' = [hpc EXCEPT ![c] = "returned"]
            /\ ret' = [ret EXCEPT ![c] = healthCheckCache.result]
            /\ exitPath' = [exitPath EXCEPT ![c] = "cached"]
            /\ healthCheckCache' = AfterHit(healthCheckCache, now)
            /\ UNCHANGED << testRedis, startedAt, probes, overlapped >>
       ELSE IF ~Truthy(env.REDIS_URL)
         THEN /\ healthCheckCache' = Stored(NotConfigured, now)
              /\ hpc' = [hpc EXCEPT ![c] = "returned"]
              /\ ret' = [ret EXCEPT ![c] = NotConfigured]
              /\ exitPath' = [exitPath EXCEPT ![c] = "unconfigured"]
              /\ UNCHANGED << testRedis, startedAt, probes, overlapped >>
         ELSE \/ \* helper.ts:359 throws, outside the try block
                 /\ hpc' = [hpc EXCEPT ![c] = "threw"]
                 /\ exitPath' = [exitPath EXCEPT ![c] = "construct"]
                 /\ UNCHANGED << healthCheckCache, testRedis, startedAt, ret,
                                 probes, overlapped >>
              \/ /\ Len(probes) < MaxProbes
                 /\ now + ProbeTimeoutMs <= MaxNow
                 /\ probes' = Append(probes, "open")
                 /\ testRedis' = [testRedis EXCEPT ![c] = Len(probes) + 1]
                 /\ startedAt' = [startedAt EXCEPT ![c] = now]
                 /\ hpc' = [hpc EXCEPT ![c] = "awaiting"]
                 /\ overlapped' =
                      (overlapped \/ \E d \in Callers \ {c} : hpc[d] = "awaiting")
                 /\ UNCHANGED << healthCheckCache, ret, exitPath >>
  /\ UNCHANGED << now, late, bootVars, apiVars >>

\* helper.ts:375-401: the race has settled; store, release, return
Settle(c, path, result) ==
  /\ healthCheckCache' = Stored(result, now)
  /\ ret' = [ret EXCEPT ![c] = result]
  /\ exitPath' = [exitPath EXCEPT ![c] = path]
  /\ probes' = IF DisconnectsOn(path) /\ ProbeToRelease(c) \in DOMAIN probes
                 THEN [probes EXCEPT ![ProbeToRelease(c)] = "closed"]
                 ELSE probes
  /\ hpc' = [hpc EXCEPT ![c] = "returned"]
  /\ late' = [late EXCEPT ![c] = Loser(path)]
  /\ hasLoggedDisconnection' =
       IF path = "success" THEN hasLoggedDisconnection
       ELSE ProbeErrorHandler(hasLoggedDisconnection)
  /\ UNCHANGED << now, testRedis, startedAt, overlapped >>
  /\ UNCHANGED << env, files, run, pc, isProduction, connection, events,
                  lostWarnings, failWarnings, redisLocal, pingOutcome, redis,
                  arlocal, localProbe, warp, wallet, config, error, filesRead, devFound,
                  generated, writes, prev, apiVars >>

\* helper.ts:369 resolves first
PingResolves(c) ==
  /\ hpc[c] = "awaiting"
  /\ Settle(c, "success", Healthy)

\* helper.ts:369 rejects first
PingRejects(c) ==
  /\ hpc[c] = "awaiting"
  /\ Settle(c, "error", Disconnected)

\* helper.ts:370-372: the 2 s timer rejects first
TimerFires(c) ==
  /\ hpc[c] = "awaiting"
  /\ now - startedAt[c] >= ProbeTimeoutMs
  /\ Settle(c, "timeout", Disconnected)

\* helper.ts:368-373: the contender that lost the race completes: the timer
\* fires after the ping settled, or the ping settles after the timer fired
LateCompletion(c) ==
  /\ late[c] # "none"
  /\ late[c] = "timer" => now - startedAt[c] >= ProbeTimeoutMs
  /\ late' = [late EXCEPT ![c] = "none"]
  /\ healthCheckCache' = AfterLate(healthCheckCache, now)
  /\ UNCHANGED << now, hpc, testRedis, startedAt, ret, exitPath, probes,
                  overlapped, bootVars, apiVars >>

\* The caller (the health endpoint) has consumed the outcome and nothing of
\* the call is left pending.
Consume(c) ==
  /\ hpc[c] \in {"returned", "threw"}
  /\ late[c] = "none"
  /\ hpc' = [hpc EXCEPT ![c] = "idle"]
  /\ testRedis' = [testRedis EXCEPT ![c] = 0]
  /\ startedAt' = [startedAt EXCEPT ![c] = 0]
  /\ ret' = [ret EXCEPT ![c] = NoSnapshot]
  /\ exitPath' = [exitPath EXCEPT ![c] = "none"]
  /\ UNCHANGED << now, healthCheckCache, probes, late, overlapped, bootVars, apiVars >>

\* Time passes.  A due timer fires before the clock is read again, and a
\* ping left pending by a timeout is rejected by the disconnect of
\* helper.ts:399 before it.
Tick ==
  /\ \A c \in Callers :
       /\ hpc[c] = "awaiting" => now - startedAt[c] < ProbeTimeoutMs
       /\ late[c] = "timer" => now - startedAt[c] < ProbeTimeoutMs
       /\ late[c] # "ping"
  /\ \E d \in TickMs :
       /\ now + d <= MaxNow
       /\ now' = now + d
  /\ UNCHANGED << healthCheckCache, hpc, testRedis, startedAt, ret, exitPath,
                  probes, late, overlapped, bootVars, apiVars >>

HealthNext ==
  \/ \E c \in Callers : Call(c)
  \/ \E c \in Callers : PingResolves(c)
  \/ \E c \in Callers : PingRejects(c)
  \/ \E c \in Callers : TimerFires(c)
  \/ \E c \in Callers : LateCompletion(c)
  \/ \E c \in Callers : Consume(c)
  \/ Tick

\* ------------------------ verifyContractHashMiddleware (contract.ts:14)
\* An Authorization header as the words between its single spaces; the empty
\* sequence is a header that is missing or empty.
NoHeader == <<>>
AuthHeaders ==
  { NoHeader, <<"Basic", "t1">>, <<"Bearer">>, <<"Bearer", "">>,
    <<"Bearer", "t1">>, <<"Bearer", "t2">>, <<"Bearer", "bad">> }

\* x-contract-id: missing, empty, or a contract id
ContractIdHeaders == {Unset, "", "c1", "c2"}

NoPayload == [contractId |-> "", userId |-> ""]

\* contract.ts:21: `!authHeader || !authHeader.startsWith('Bearer ')`
HasBearer(authHeader) ==
  authHeader # NoHeader /\ Len(authHeader) >= 2 /\ authHeader[1] = "Bearer"

\* contract.ts:26: authHeader.split(' ')[1]
BearerToken(authHeader) == authHeader[2]

\* contract.ts:27-29: the payload of a token that verifies, a falsy value
\* otherwise
VerifyContractHash(token) ==
  CASE token = "t1" -> [contractId |-> "c1", userId |-> "u1"]
    [] token = "t2" -> [contractId |-> "c2", userId |-> "u2"]
    [] OTHER -> NoPayload

\* contract.ts:34
Sha256(token) == <<"sha256", token>>

\* contract.ts:45: `headerContractId && payload.contractId !== headerContractId`
ContractIdMismatch_Never(headerContractId, payload) == FALSE

ContractIdMismatch(headerContractId, payload) ==
  Truthy(headerContractId) /\ payload.contractId # headerContractId

MwIdle ==
  [authorization |-> NoHeader, contractId |-> Unset, instances |-> {},
   pc |-> "idle", payload |-> NoPayload, responses |-> <<>>, nextCalls |-> 0,
   contract |-> NoPayload, verifies |-> 0, lookups |-> 0]

\* a request arriving, and the hashes stored in the instances table
MwRequests ==
  { [MwIdle EXCEPT !.authorization = a, !.contractId = x, !.instances = db,
                   !.pc = "start"] :
      a \in AuthHeaders, x \in ContractIdHeaders,
      db \in SUBSET {Sha256("t1"), Sha256("bad")} }

\* contract.ts:19-36: up to the await of findHashedKeyInDb
MwVerify ==
  /\ mw.pc = "start"
  /\ IF ~HasBearer(mw.authorization)
       THEN mw' = [mw EXCEPT !.responses = Append(@, 401), !.pc = "ended"]
       ELSE LET token == BearerToken(mw.authorization)
                payload == VerifyContractHash(token)
            IN IF payload = NoPayload
                 THEN mw' = [mw EXCEPT !.verifies = @ + 1,
                                       !.responses = Append(@, 401),
                                       !.pc = "ended"]
                 ELSE mw' = [mw EXCEPT !.verifies = @ + 1,
                                       !.payload = payload,
                                       !.pc = "lookup"]
  /\ UNCHANGED << bootVars, healthVars, dp, rt >>

\* contract.ts:36-52: findHashedKeyInDb resolves
MwLookupResolves ==
  /\ mw.pc = "lookup"
  /\ LET hash == Sha256(BearerToken(mw.authorization))
         isValid == hash \in mw.instances
     IN IF ~isValid
          THEN mw' = [mw EXCEPT !.lookups = @ + 1,
                                !.responses = Append(@, 403), !.pc = "ended"]
          ELSE IF ContractIdMismatch(mw.contractId, mw.payload)
            THEN mw' = [mw EXCEPT !.lookups = @ + 1,
                                  !.responses = Append(@, 403), !.pc = "ended"]
            ELSE mw' = [mw EXCEPT !.lookups = @ + 1,
                                  !.contract = mw.payload,
                                  !.nextCalls = @ + 1, !.pc = "next"]
  /\ UNCHANGED << bootVars, healthVars, dp, rt >>

\* contract.ts:36: findHashedKeyInDb rejects and so does the middleware
MwLookupRejects ==
  /\ mw.pc = "lookup"
  /\ mw' = [mw EXCEPT !.lookups = @ + 1, !.pc = "threw"]
  /\ UNCHANGED << bootVars, healthVars, dp, rt >>

MwNext == MwVerify \/ MwLookupResolves \/ MwLookupRejects

\* ------------------------------------ POST /contract (part_000:36-131)
NumRequests == 2
DpRequests == 1..NumRequests

\* an instanceKeyHash that is null or empty
NoKeyHash == <<>>

\* part_000:84: the hashed key of a deployed contract of a user
GenerateContractHash(contractTxId, userId) == <<"key", contractTxId, userId>>

\* instances.ts:31-43: the row of the user with its key hash replaced
UpdateInstanceKeyHash(row, instanceKeyHash) ==
  [row EXCEPT !.instanceKeyHash = instanceKeyHash]

NoInstance == [exists |-> FALSE, instanceKeyHash |-> NoKeyHash]

DpRequestIdle == [pc |-> "idle", contractTxId |-> 0, responses |-> <<>>]

\* No request has arrived.  `deployed` counts the contracts deployed for the
\* user, `overwrites` the updates that replaced a non-empty key hash.
DpIdle ==
  [subscription |-> "none", instance |-> NoInstance, deployed |-> 0,
   overwrites |-> 0, req |-> [r \in DpRequests |-> DpRequestIdle]]

\* the rows of the user: a subscription without or with a plan, an instance
\* without or with a key hash
DpStores ==
  { [DpIdle EXCEPT !.subscription = sub, !.instance = i] :
      sub \in {"none", "noplan", "plan"},
      i \in { NoInstance,
              [exists |-> TRUE, instanceKeyHash |-> NoKeyHash],
              [exists |-> TRUE, instanceKeyHash |-> <<"key", 0, "u1">>] } }

DpRespond(r, code, to) ==
  dp' = [dp EXCEPT !.req[r].responses = Append(@, code), !.req[r].pc = to]

\* part_000:38-47: the request arrives, with or without a user id
DpArrive(r) ==
  /\ dp.req[r].pc = "idle"
  /\ \E userId \in {"", "u1"} :
       IF ~Truthy(userId)
         THEN DpRespond(r, 400, "ended")
         ELSE dp' = [dp EXCEPT !.req[r].pc = "subscription"]
  /\ UNCHANGED << bootVars, healthVars, mw, rt >>

\* part_000:47-58: getUserSubscription resolves
DpSubscription(r) ==
  /\ dp.req[r].pc = "subscription"
  /\ IF dp.subscription # "plan"
       THEN DpRespond(r, 400, "ended")
       ELSE dp' = [dp EXCEPT !.req[r].pc = "instance"]
  /\ UNCHANGED << bootVars, healthVars, mw, rt >>

\* part_000:61-71: getInstanceByUserId resolves with the row as it is now
DpInstance(r) ==
  /\ dp.req[r].pc = "instance"
  /\ IF ~dp.instance.exists
       THEN DpRespond(r, 400, "ended")
       ELSE IF dp.instance.instanceKeyHash # NoKeyHash
         THEN DpRespond(r, 201, "ended")
         ELSE dp' = [dp EXCEPT !.req[r].pc = "deploy"]
  /\ UNCHANGED << bootVars, healthVars, mw, rt >>

\* part_000:74-92: deployNewContract resolves, with or without a contract id
DpDeploy(r) ==
  /\ dp.req[r].pc = "deploy"
  /\ \E hasContractId \in BOOLEAN :
       IF hasContractId
         THEN dp' = [dp EXCEPT !.deployed = @ + 1,
                               !.req[r].contractTxId = dp.deployed + 1,
                               !.req[r].pc = "update"]
         ELSE DpRespond(r, 500, "ended")
  /\ UNCHANGED << bootVars, healthVars, mw, rt >>

\* part_000:98-114: updateInstanceKeyHash resolves with the updated row
DpUpdate(r) ==
  /\ dp.req[r].pc = "update"
  /\ dp' = [dp EXCEPT
       !.instance = UpdateInstanceKeyHash(@,
                      GenerateContractHash(dp.req[r].contractTxId, "u1")),
       !.overwrites = IF dp.instance.instanceKeyHash # NoKeyHash
                        THEN @ + 1 ELSE @,
       !.req[r].responses = Append(@, 201),
       !.req[r].pc = "ended"]
  /\ UNCHANGED << bootVars, healthVars, mw, rt >>

\* part_000:116-131: an awaited call rejects and the catch answers 500
DpRejects(r) ==
  /\ dp.req[r].pc \in {"subscription", "instance", "deploy", "update"}
  /\ DpRespond(r, 500, "ended")
  /\ UNCHANGED << bootVars, healthVars, mw, rt >>

DpNext ==
  \E r \in DpRequests :
    \/ DpArrive(r)
    \/ DpSubscription(r)
    \/ DpInstance(r)
    \/ DpDeploy(r)
    \/ DpUpdate(r)
    \/ DpRejects(r)

\* ------------- apiKeyRouter (part_001) and instanceRouter (instanceRouter.ts)
Handlers == {"apiKey.create", "apiKey.list", "instance.create", "instance.list"}

\* No request.  `attempts` lists the status codes of the res.json calls of the
\* request in order; the first one is the response the client receives.
RtIdle ==
  [handler |-> "none", userId |-> "", subscription |-> "none", key |-> FALSE,
   created |-> FALSE, rows |-> 0, existing |-> FALSE, pc |-> "idle",
   attempts |-> <<>>, threw |-> FALSE, dereferenced |-> FALSE]

\* a request to one handler: its user id, and what the key generator and the
\* database will answer
RtRequests ==
  { [RtIdle EXCEPT !.handler = h, !.userId = u, !.subscription = sub,
                   !.key = k, !.created = c, !.rows = n, !.existing = e,
                   !.pc = "start"] :
      h \in Handlers, u \in {"", "u1"},
      sub \in {"none", "inactive", "active"},
      k \in BOOLEAN, c \in BOOLEAN, n \in {0, 1}, e \in BOOLEAN }

\* res.status(code).json(...): a response that is sent after one was already
\* sent throws ERR_HTTP_HEADERS_SENT
ResJson(r, code) ==
  [r EXCEPT !.attempts = Append(@, code), !.threw = (Len(r.attempts) > 0)]

\* the res.json calls of a block in order, up to the first that throws
RECURSIVE SendAll(_, _)
SendAll(r, codes) ==
  IF codes = <<>> \/ r.threw
    THEN r
    ELSE SendAll(ResJson(r, Head(codes)), Tail(codes))

\* the catch block of a handler: a 500 response (part_001:47-50, 66-69)
Catch(r) == IF r.threw THEN ResJson([r EXCEPT !.threw = FALSE], 500) ELSE r

\* the handler returns, or its promise rejects with what was thrown
Finish(r) == [r EXCEPT !.pc = IF r.threw THEN "rejected" ELSE "ended"]

\* part_001:13-22, instanceRouter.ts:13-23
CreateArrives ==
  /\ rt.pc = "start"
  /\ rt.handler \in {"apiKey.create", "instance.create"}
  /\ rt' = IF ~Truthy(rt.userId)
             THEN Finish(ResJson(rt, 401))
             ELSE [rt EXCEPT !.pc = "subscription"]
  /\ UNCHANGED << bootVars, healthVars, mw, dp >>

\* part_001:22-34: getUserSubscription resolves; the key is generated
ApiKeyCreateSubscription ==
  /\ rt.pc = "subscription"
  /\ rt.handler = "apiKey.create"
  /\ rt' = IF rt.subscription # "active"
             THEN Finish(ResJson(rt, 400))
             ELSE IF ~rt.key
               THEN [ResJson(rt, 500) EXCEPT !.dereferenced = TRUE,
                                             !.pc = "rejected"]
               ELSE [rt EXCEPT !.pc = "insert"]
  /\ UNCHANGED << bootVars, healthVars, mw, dp >>

\* part_001:34-50: createApiKey resolves, with the row or with nothing
ApiKeyCreateInsert ==
  /\ rt.pc = "insert"
  /\ rt.handler = "apiKey.create"
  /\ rt' = Finish(Catch(SendAll(rt, IF rt.created THEN <<201>>
                                                  ELSE <<500, 201>>)))
  /\ UNCHANGED << bootVars, healthVars, mw, dp >>

\* instanceRouter.ts:23-30: getUserSubscription resolves
InstanceCreateSubscription ==
  /\ rt.pc = "subscription"
  /\ rt.handler = "instance.create"
  /\ rt' = IF rt.subscription # "active"
             THEN Finish(ResJson(rt, 400))
             ELSE [rt EXCEPT !.pc = "existing"]
  /\ UNCHANGED << bootVars, healthVars, mw, dp >>

\* instanceRouter.ts:30-37: getInstanceByUserId resolves
InstanceCreateExisting ==
  /\ rt.pc = "existing"
  /\ rt' = IF rt.existing
             THEN Finish(ResJson(rt, 201))
             ELSE [rt EXCEPT !.pc = "insert"]
  /\ UNCHANGED << bootVars, healthVars, mw, dp >>

\* instanceRouter.ts:36-48: createInstance resolves, with the row or nothing
InstanceCreateInsert ==
  /\ rt.pc = "insert"
  /\ rt.handler = "instance.create"
  /\ rt' = Finish(Catch(SendAll(rt, IF rt.created THEN <<201>>
                                                  ELSE <<500, 201>>)))
  /\ UNCHANGED << bootVars, healthVars, mw, dp >>

\* part_001:47-50, instanceRouter.ts:45-48: the insert rejects
InsertRejects ==
  /\ rt.pc = "insert"
  /\ rt' = Finish(Catch([rt EXCEPT !.threw = TRUE]))
  /\ UNCHANGED << bootVars, healthVars, mw, dp >>

\* part_001:22, instanceRouter.ts:23, 30: an await outside the try rejects
LookupRejects ==
  /\ rt.pc \in {"subscription", "existing"}
  /\ rt' = Finish([rt EXCEPT !.threw = TRUE])
  /\ UNCHANGED << bootVars, healthVars, mw, dp >>

\* part_001:54-61, instanceRouter.ts:52-59
ListArrives ==
  /\ rt.pc = "start"
  /\ rt.handler \in {"apiKey.list", "instance.list"}
  /\ rt' = IF ~Truthy(rt.userId)
             THEN Finish(ResJson(rt, 401))
             ELSE [rt EXCEPT !.pc = "list"]
  /\ UNCHANGED << bootVars, healthVars, mw, dp >>

\* part_001:61-69: listApiKeys resolves
ApiKeyList ==
  /\ rt.pc = "list"
  /\ rt.handler = "apiKey.list"
  /\ rt' = Finish(Catch(SendAll(rt, IF rt.rows = 0 THEN <<204, 200>>
                                                   ELSE <<200>>)))
  /\ UNCHANGED << bootVars, healthVars, mw, dp >>

\* instanceRouter.ts:59-67: listInstances resolves
InstanceList ==
  /\ rt.pc = "list"
  /\ rt.handler = "instance.list"
  /\ rt' = Finish(Catch(SendAll(rt, IF rt.rows = 0 THEN <<204, 200>>
                                                   ELSE <<200>>)))
  /\ UNCHANGED << bootVars, healthVars, mw, dp >>

\* part_001:66-69, instanceRouter.ts:64-67: the list query rejects
ListRejects ==
  /\ rt.pc = "list"
  /\ rt' = Finish(Catch([rt EXCEPT !.threw = TRUE]))
  /\ UNCHANGED << bootVars, healthVars, mw, dp >>

RtNext ==
  \/ CreateArrives
  \/ ApiKeyCreateSubscription
  \/ ApiKeyCreateInsert
  \/ InstanceCreateSubscription
  \/ InstanceCreateExisting
  \/ InstanceCreateInsert
  \/ InsertRejects
  \/ LookupRejects
  \/ ListArrives
  \/ ApiKeyList
  \/ InstanceList
  \/ ListRejects


ApiIdle == mw = MwIdle /\ dp = DpIdle /\ rt = RtIdle

\* ---------------------------------------------------------- specifications
Init == BootInit /\ HealthStart /\ ApiIdle

Next == BootNext

Spec == Init /\ [][Next]_vars

\* The steps of one bootstrap run.  Each is synchronous code or an awaited
\* operation that settles: the ping by a reply, by commandTimeout or by the
\* retry limit (redis.ts:26-29), the local probe by a response, an error or
\* its abort timer (helper.ts:251-252).
BootStep ==
  \/ Start
  \/ ConstructOk
  \/ ConstructThrows
  \/ PingOk
  \/ PingFail
  \/ SelectNetwork
  \/ ProbeArLocal
  \/ UseDeployPlugin
  \/ LoadProductionWallet
  \/ LoadDevelopmentWallet

\* Termination does not depend on what the wallet files hold beyond
\* missing, malformed or valid.
InitTerminates ==
  /\ Init
  /\ files[ProdWalletPath] \in {Missing, File(Truncated), File(JsonStringify(JWK("k1")))}
  /\ files[DevWalletPath] \in {Missing, File(JsonStringify(JWK("k1")))}

SpecTerminates == InitTerminates /\ [][Next]_vars /\ WF_vars(BootStep)

\* The health endpoint polled in a process whose bootstrap is not modelled.
HealthEnvs ==
  { e \in Envs : /\ e.NODE_ENV = <<"development">>
                 /\ e.SERVICE_WALLET_ADDRESS = Unset
                 /\ e.ARWEAVE_WALLET_PATH = Unset }

InitHealth ==
  /\ env \in HealthEnvs
  /\ files = [p \in Paths |-> Missing]
  /\ run = 1
  /\ prev = NoPrev
  /\ ProcessStart
  /\ HealthStart
  /\ ApiIdle

SpecHealth == InitHealth /\ [][HealthNext]_vars

\* One request through the middleware, the rest of the process at rest.
InitMiddleware ==
  /\ env \in HealthEnvs
  /\ files = [p \in Paths |-> Missing]
  /\ run = 1
  /\ prev = NoPrev
  /\ ProcessStart
  /\ HealthStart
  /\ mw \in MwRequests /\ dp = DpIdle /\ rt = RtIdle

SpecMiddleware == InitMiddleware /\ [][MwNext]_vars

\* Concurrent POST /contract requests of one user.
InitDeploy ==
  /\ env \in HealthEnvs
  /\ files = [p \in Paths |-> Missing]
  /\ run = 1
  /\ prev = NoPrev
  /\ ProcessStart
  /\ HealthStart
  /\ mw = MwIdle /\ dp \in DpStores /\ rt = RtIdle

SpecDeploy == InitDeploy /\ [][DpNext]_vars

\* One request to a handler of the API-key or the instance router.
InitRouters ==
  /\ env \in HealthEnvs
  /\ files = [p \in Paths |-> Missing]
  /\ run = 1
  /\ prev = NoPrev
  /\ ProcessStart
  /\ HealthStart
  /\ mw = MwIdle /\ dp = DpIdle /\ rt \in RtRequests

SpecRouters == InitRouters /\ [][RtNext]_vars

\* A call whose race is observed and one call overlapping it.
\* The event loop runs due timers (of a race still pending or already
\* settled), a disconnected client rejects its pending ping, and the clock
\* advances; nothing is assumed about the ping of a race still pending, which
\* may never be answered.
Racers == {1, 2}

RaceNext ==
  \/ \E c \in Racers : Call(c)
  \/ \E c \in Racers : PingResolves(c)
  \/ \E c \in Racers : PingRejects(c)
  \/ \E c \in Racers : TimerFires(c)
  \/ \E c \in Racers : LateCompletion(c)
  \/ \E c \in Racers : Consume(c)
  \/ Tick

SpecRace ==
  /\ InitHealth
  /\ [][RaceNext]_vars
  /\ WF_vars(Tick)
  /\ \A c \in Racers : WF_vars(TimerFires(c))
  /\ \A c \in Racers : WF_vars(LateCompletion(c))

\* initializeRedis and the events of the connection it opens, in a process
\* whose health endpoint is polled by one request at a time.
RedisNext ==
  \/ Start
  \/ ConstructOk
  \/ ConstructThrows
  \/ OnReady
  \/ OnError
  \/ PingOk
  \/ PingFail

Poller == 1

PollerNext ==
  \/ Call(Poller)
  \/ PingResolves(Poller)
  \/ PingRejects(Poller)
  \/ TimerFires(Poller)
  \/ LateCompletion(Poller)
  \/ Consume(Poller)
  \/ Tick

SharedNext == RedisNext \/ PollerNext

SpecShared == InitHealth /\ [][SharedNext]_vars

\* ------------------------------------------------------------------ claims
RECURSIVE EpisodeStarts(_)
\* errors that are the first event or directly follow a 'ready'
EpisodeStarts(evs) ==
  IF evs = <<>> THEN 0
  ELSE LET n == Len(evs)
           first == evs[n] = "error" /\ (n = 1 \/ evs[n - 1] = "ready")
       IN EpisodeStarts(SubSeq(evs, 1, n - 1)) + (IF first THEN 1 ELSE 0)

\* C1: for every sequence of 'ready' and 'error' events delivered to the
\* long-lived connection, the number of "Redis connection lost" warnings is
\* the number of Quiet->Warned transitions (errors that are first since
\* construction or since the latest 'ready'), and the flag is Warned exactly
\* when the latest event is an error.
C1_OneWarningPerEpisode ==
  /\ lostWarnings = EpisodeStarts(events)
  /\ hasLoggedDisconnection = (events # <<>> /\ events[Len(events)] = "error")

C1_Witness ==
  /\ events = <<"error", "error", "ready", "error">>
  /\ lostWarnings = 2

\* C2: initializeRedis never throws and every failure degrades to no handle:
\* when the client cannot be constructed or the initial ping fails, the
\* caller receives undefined.
C2_FailureReturnsNoHandle ==
  (redis # "pending" /\ pingOutcome # "ok") => redis = "undefined"

\* C3: the Warp instance uses the Redis-backed KV storage if and only if the
\* cache connection was Ready at startup (initial ping succeeded), and the
\* returned config carries a redis handle only then.
C3_RedisStorageIffReady ==
  /\ warp.network # "none" => (warp.kv = "redis" <=> pingOutcome = "ok")
  /\ config.returned => (config.redis = "client" <=> pingOutcome = "ok")

\* C4: in production, a keypair whose derived address differs from
\* SERVICE_WALLET_ADDRESS makes initializeArweave fail with an
\* identity-mismatch error carrying the expected and the derived address,
\* distinguishable from the load error, and no config is returned.
C4_MismatchErrorCarriesAddresses ==
  LET r == ReadJson(files, env.ARWEAVE_WALLET_PATH)
      a == JwkToAddress(r.value)
  IN ( /\ isProduction
       /\ pc \in {"done", "failed"}
       /\ Truthy(env.SERVICE_WALLET_ADDRESS)
       /\ Truthy(env.ARWEAVE_WALLET_PATH)
       /\ r.ok /\ a.ok
       /\ a.address # env.SERVICE_WALLET_ADDRESS )
     => /\ pc = "failed"
        /\ ~config.returned
        /\ error.kind = "mismatch"
        /\ error.expected = env.SERVICE_WALLET_ADDRESS
        /\ error.loaded = a.address

\* C5: whenever initializeArweave returns a config in production mode, the
\* address derived from the returned wallet equals SERVICE_WALLET_ADDRESS.
C5_ReturnedWalletMatchesExpected ==
  (config.returned /\ isProduction) =>
     /\ JwkToAddress(config.wallet).ok
     /\ JwkToAddress(config.wallet).address = env.SERVICE_WALLET_ADDRESS
     /\ config.wallet = wallet

C5_Witness ==
  /\ config.returned
  /\ isProduction
  /\ pc = "done"
  /\ filesRead = {ProdWalletPath}

\* C6: in production, if SERVICE_WALLET_ADDRESS or ARWEAVE_WALLET_PATH is
\* absent, initializeArweave fails with the configuration error (not the
\* load or mismatch error), reads no wallet file and returns no config.
C6_MissingVariablesConfigurationError ==
  ( /\ isProduction
    /\ pc \in {"done", "failed"}
    /\ ~(Truthy(env.SERVICE_WALLET_ADDRESS) /\ Truthy(env.ARWEAVE_WALLET_PATH)) )
  => /\ pc = "failed"
     /\ error.kind = "config"
     /\ filesRead = {}
     /\ ~config.returned
     /\ wallet = NoKey

C6_Witness ==
  /\ isProduction
  /\ pc = "failed"
  /\ error.kind = "config"
  /\ Truthy(env.SERVICE_WALLET_ADDRESS)
  /\ ~Truthy(env.ARWEAVE_WALLET_PATH)

\* C7: in non-production mode a bootstrap that finds no dev-wallet.json and
\* returns has generated one keypair and left exactly it at ./dev-wallet.json;
\* the next bootstrap against the same storage returns the persisted keypair
\* and neither generates nor writes.
C7_DevWalletPersistedAndReused ==
  /\ (pc = "done" /\ ~isProduction /\ devFound = "absent") =>
       /\ generated = 1
       /\ writes = 1
       /\ files[DevWalletPath].exists
       /\ ReadJson(files, DevWalletPath) = [ok |-> TRUE, value |-> config.wallet]
  /\ ( /\ prev.exists /\ prev.devFound = "absent" /\ prev.returned
       /\ pc = "done" /\ ~isProduction ) =>
       /\ config.returned
       /\ config.wallet = prev.wallet
       /\ devFound = "loaded"
       /\ generated = 0
       /\ writes = 0

C7_Witness ==
  /\ prev.exists /\ prev.devFound = "absent" /\ prev.returned
  /\ run = 2
  /\ pc = "done" /\ ~isProduction
  /\ config.wallet = JWK("k3")

\* C8: a call that starts less than 30000 ms after the stored snapshot's
\* timestamp opens no probe connection and returns the stored snapshot,
\* leaving the slot as it is; a call that starts with no snapshot or 30000 ms
\* or more after its timestamp computes afresh (with REDIS_URL set, it
\* constructs a new probe client).
C8_SnapshotServedWithinTtl ==
  [][ \A c \in Callers :
        (hpc[c] = "idle" /\ hpc'[c] # "idle") =>
          IF healthCheckCache.set /\ now - healthCheckCache.timestamp < 30000
            THEN /\ probes' = probes
                 /\ hpc'[c] = "returned"
                 /\ ret'[c] = healthCheckCache.result
                 /\ healthCheckCache' = healthCheckCache
            ELSE /\ exitPath'[c] # "cached"
                 /\ Truthy(env.REDIS_URL) =>
                      \/ Len(probes') = Len(probes) + 1 /\ hpc'[c] = "awaiting"
                      \/ hpc'[c] = "threw" ]_vars

C8_Witness ==
  /\ \E c \in Callers :
       /\ hpc[c] = "returned"
       /\ exitPath[c] = "cached"
       /\ ret[c] = Healthy
  /\ Len(probes) = 2
  /\ ~overlapped
  /\ healthCheckCache.timestamp >= HealthTtlMs

\* C9: every probe connection opened by checkRedisConnectivity is
\* disconnected when the call returns, whether it left by ping success, ping
\* error or the 2 s timeout.
C9_ProbeReleasedOnEveryExit ==
  \A c \in Callers :
    (hpc[c] = "returned" /\ exitPath[c] \in {"success", "error", "timeout"}) =>
       /\ testRedis[c] \in DOMAIN probes
       /\ probes[testRedis[c]] = "closed"

C9_Witness ==
  /\ hpc[1] = "returned" /\ exitPath[1] = "timeout"
  /\ hpc[2] = "returned" /\ exitPath[2] = "error"
  /\ Len(probes) = 3
  /\ \A i \in DOMAIN probes : probes[i] = "closed"

\* C10: when several calls race to recompute an empty or expired snapshot, no
\* probe connection is leaked: once all of them have returned, every probe
\* connection that was opened has been disconnected.
C10_NoLeakAfterConcurrentCalls ==
  (\A c \in Callers : hpc[c] # "awaiting") =>
     \A i \in DOMAIN probes : probes[i] = "closed"

C10_Witness ==
  /\ overlapped
  /\ \A c \in Callers : hpc[c] = "returned" /\ exitPath[c] # "cached"
  /\ Len(probes) >= 2

\* C11: checkRedisConnectivity never throws or rejects: a failure to
\* construct the probe client, a ping error and the probe timeout are all
\* absorbed and reported only as a returned snapshot with connected = FALSE.
C11_NeverRejects ==
  \A c \in Callers :
    /\ hpc[c] # "threw"
    /\ (hpc[c] = "returned" /\ exitPath[c] \in {"construct", "error", "timeout"})
         => ~ret[c].connected

\* C12: with REDIS_URL not configured and no fresh snapshot, the call returns
\* {configured: false, connected: false}, stores that snapshot with the
\* current time in the slot, and constructs no Redis client.
C12_UnconfiguredAnswersWithoutIo ==
  [][ \A c \in Callers :
        ( /\ hpc[c] = "idle" /\ hpc'[c] # "idle"
          /\ env.REDIS_URL \in {Unset, ""}
          /\ ~(healthCheckCache.set /\ now - healthCheckCache.timestamp < 30000) )
        => /\ hpc'[c] = "returned"
           /\ ret'[c] = [configured |-> FALSE, connected |-> FALSE,
                         status |-> "not configured"]
           /\ healthCheckCache' =
                [set |-> TRUE, result |-> ret'[c], timestamp |-> now]
           /\ probes' = probes
           /\ probes = <<>>
           /\ testRedis'[c] = 0 ]_vars

C12_Witness ==
  /\ env.REDIS_URL = Unset
  /\ \E c \in Callers : hpc[c] = "returned" /\ exitPath[c] = "unconfigured"
  /\ healthCheckCache.set
  /\ healthCheckCache.timestamp = now
  /\ now >= HealthTtlMs
  /\ probes = <<>>

\* C13: when REDIS_URL is configured and a probe is performed, the snapshot
\* returned and stored is {configured: true, connected: true} exactly when
\* the ping resolved first, and {configured: true, connected: false} when the
\* ping rejected or the 2 s timer fired first (which it does no earlier than
\* 2000 ms after the probe started).
C13_SnapshotFollowsRaceOutcome ==
  [][ \A c \in Callers :
        (hpc[c] = "awaiting" /\ hpc'[c] # "awaiting") =>
          /\ hpc'[c] = "returned"
          /\ exitPath'[c] \in {"success", "error", "timeout"}
          /\ ret'[c] = IF exitPath'[c] = "success"
                         THEN [configured |-> TRUE, connected |-> TRUE,
                               status |-> "ready"]
                         ELSE [configured |-> TRUE, connected |-> FALSE,
                               status |-> "disconnected"]
          /\ healthCheckCache' =
               [set |-> TRUE, result |-> ret'[c], timestamp |-> now]
          /\ exitPath'[c] = "timeout" => now - startedAt[c] >= 2000 ]_vars

C13_Witness ==
  /\ hpc[1] = "returned" /\ exitPath[1] = "success" /\ ret[1].connected
  /\ hpc[2] = "returned" /\ exitPath[2] = "timeout" /\ ~ret[2].connected
  /\ now - startedAt[2] >= ProbeTimeoutMs
  /\ healthCheckCache.result = ret[2]

\* C14: when REDIS_URL is not set, initializeRedis returns undefined at once:
\* no client is constructed, no handler is registered (no event is ever
\* delivered), no ping is issued and no warning is logged.
C14_NoUrlNoConnection ==
  (env.REDIS_URL \in {Unset, ""}) =>
     /\ connection = "none"
     /\ redisLocal = "undefined"
     /\ events = <<>>
     /\ pingOutcome \in {"none", "noclient"}
     /\ lostWarnings = 0
     /\ failWarnings = 0
     /\ pc # "construct" /\ pc # "ping"
     /\ pc # "start" => redis = "undefined"

C14_Witness ==
  /\ env.REDIS_URL = Unset
  /\ pc = "done"
  /\ config.returned
  /\ config.redis = "undefined"
  /\ config.warp.kv = "leveldb"

\* NODE_ENV, trimmed, is 'production'
ProductionMode ==
  env.NODE_ENV \in { <<"production">>, <<" ", "production", " ">> }

\* C15: in development mode, if the local-network probe reports unreachable
\* (error, non-OK response or timeout) the target is the remote testnet and
\* never the local network; if it reports reachable the target is the local
\* network on the fixed port.
C15_LocalProbeDecidesTarget ==
  (~ProductionMode /\ arlocal # "notrun") =>
     /\ pc # "failed" \/ warp.network # "none"
     /\ arlocal = "ok" =>
          warp.network = "local" /\ warp.port = 8080
     /\ arlocal \in {"notok", "error", "timeout"} =>
          warp.network = "testnet"

C15_Witness ==
  /\ ~ProductionMode
  /\ arlocal = "notok"
  /\ warp.network = "testnet"
  /\ config.returned
  /\ config.warp.network = "testnet"

\* C16: in production mode the target is always the mainnet, whatever the
\* cache availability, and the local-network reachability probe is never
\* executed.
C16_ProductionAlwaysMainnet ==
  ProductionMode =>
     /\ arlocal = "notrun"
     /\ pc # "arlocal"
     /\ warp.network \in {"none", "mainnet"}
     /\ pc \in {"plugin", "wallet", "done", "failed"} => warp.network = "mainnet"
     /\ config.returned => config.warp.network = "mainnet"

C16_Witness ==
  /\ env.NODE_ENV = <<" ", "production", " ">>
  /\ pingOutcome = "failed"
  /\ config.returned
  /\ config.warp.network = "mainnet"

\* C17: no environment-selection outcome aborts bootstrap: whatever the cache
\* state and the local-node state, a failure happens only after the network
\* is selected and the plugin attached, and it is a configuration or
\* wallet-load error in production, a generation or persistence error in
\* development.
C17_OnlyIdentityFailuresAreFatal ==
  /\ pc \in {"wallet", "done", "failed"} =>
       warp.network # "none" /\ warp.deploy
  /\ pc = "failed" =>
       /\ ~config.returned
       /\ ProductionMode => error.kind \in {"config", "load"}
       /\ ~ProductionMode => error.kind \in {"generate", "derive", "write"}
  /\ pc # "failed" => error.kind = "none"

C17_Witness ==
  /\ pc = "done"
  /\ config.returned
  /\ pingOutcome = "failed"
  /\ arlocal = "timeout"
  /\ error.kind = "none"

\* C18: in every bootstrap run the cache connection attempt completes before
\* the local probe starts, the probe completes before the endpoint is
\* selected, and the wallet is read, derived or generated only after the
\* endpoint has been selected.
C18_StepsInOrder ==
  /\ (pc = "arlocal" \/ arlocal # "notrun") => redis # "pending"
  /\ warp.network # "none" =>
       /\ redis # "pending"
       /\ ~ProductionMode => arlocal # "notrun"
  /\ ( \/ filesRead # {} \/ wallet # NoKey \/ generated > 0 \/ writes > 0
       \/ devFound # "unread" \/ pc \in {"wallet", "done"} ) =>
       /\ warp.network # "none"
       /\ warp.deploy
       /\ redis # "pending"

C18_Witness ==
  /\ pc = "done"
  /\ ~ProductionMode
  /\ redis = "client"
  /\ pingOutcome = "ok"
  /\ arlocal = "ok"
  /\ generated = 1
  /\ warp.network = "local"

\* C19: every bootstrap run terminates, with a returned config or a fatal
\* error, even when the cache server and the local node never answer: the
\* ping and the local probe each settle by their own timeout.
C19_EveryRunTerminates ==
  (pc = "start") ~> (pc \in {"done", "failed"})

C19_Witness ==
  /\ pc \in {"done", "failed"}
  /\ run = 2
  /\ pingOutcome = "failed"
  /\ events = <<>>
  /\ arlocal = "timeout"

\* C20: in production mode a wallet file that is missing or is not valid
\* JSON makes initializeArweave fail with the load error and return no
\* config; no other keypair source is tried (nothing generated, the
\* development wallet file not read, nothing written).
C20_UnreadableProductionWalletIsFatal ==
  ( /\ ProductionMode
    /\ pc \in {"done", "failed"}
    /\ Truthy(env.SERVICE_WALLET_ADDRESS)
    /\ Truthy(env.ARWEAVE_WALLET_PATH)
    /\ \/ ~files[env.ARWEAVE_WALLET_PATH].exists
       \/ ~JsonParse(files[env.ARWEAVE_WALLET_PATH].data).ok )
  => /\ pc = "failed"
     /\ error.kind = "load"
     /\ ~config.returned
     /\ wallet = NoKey
     /\ generated = 0
     /\ writes = 0
     /\ filesRead = {env.ARWEAVE_WALLET_PATH}

C20_Witness ==
  /\ ProductionMode
  /\ pc = "failed"
  /\ error.kind = "load"
  /\ files[ProdWalletPath] = File(Truncated)
  /\ files[DevWalletPath] = File(JsonStringify(JWK("k1")))
  /\ filesRead = {ProdWalletPath}

\* C21: in production mode no keypair is generated and no file is written,
\* on any path of the identity step (success, missing variables, unreadable
\* file, address mismatch): no step of a production bootstrap changes the
\* file system.
C21_ProductionNeverWritesIdentity ==
  [][ ProductionMode =>
        /\ files' = files
        /\ generated' = 0
        /\ writes' = 0 ]_vars

C21_Witness ==
  /\ ProductionMode
  /\ run = 2
  /\ prev.exists /\ ~prev.returned
  /\ pc = "failed"
  /\ error.kind = "load"
  /\ wallet = JWK("k2")
  /\ ~files[DevWalletPath].exists
  /\ generated = 0 /\ writes = 0

\* C22: in development mode a dev-wallet.json that can be read, parsed and
\* turned into an address is returned as it is, with nothing generated or
\* written, whatever that address is and whatever SERVICE_WALLET_ADDRESS says.
C22_DevWalletAcceptedUnvalidated ==
  [][ ( /\ ~ProductionMode
        /\ pc = "wallet" /\ pc' # "wallet"
        /\ files[DevWalletPath].exists
        /\ JsonParse(files[DevWalletPath].data).ok
        /\ JwkToAddress(JsonParse(files[DevWalletPath].data).value).ok )
      => /\ pc' = "done"
         /\ config'.returned
         /\ config'.wallet = JsonParse(files[DevWalletPath].data).value
         /\ files' = files
         /\ generated' = 0
         /\ writes' = 0 ]_vars

C22_Witness ==
  /\ ~ProductionMode
  /\ env.SERVICE_WALLET_ADDRESS = "A2"
  /\ pc = "done"
  /\ devFound = "loaded"
  /\ config.returned
  /\ config.wallet = JWK("k1")
  /\ JwkToAddress(config.wallet).address = "A1"
  /\ generated = 0

\* C23: the mode is decided once per bootstrap, production exactly when
\* NODE_ENV trimmed is 'production', and that one decision selects both the
\* network and the identity path: a returned config with the mainnet target
\* carries the validated production wallet, and one with the local or testnet
\* target carries the development wallet; no other pairing is returned.
C23_OneModeDecisionGovernsBoth ==
  /\ pc # "start" => isProduction = ProductionMode
  /\ config.returned =>
       IF config.warp.network = "mainnet"
         THEN /\ ProductionMode
              /\ arlocal = "notrun"
              /\ filesRead = {env.ARWEAVE_WALLET_PATH}
              /\ devFound = "unread"
              /\ generated = 0
              /\ JwkToAddress(config.wallet).ok
              /\ JwkToAddress(config.wallet).address = env.SERVICE_WALLET_ADDRESS
         ELSE /\ ~ProductionMode
              /\ config.warp.network \in {"local", "testnet"}
              /\ arlocal # "notrun"
              /\ filesRead = {DevWalletPath}
              /\ devFound # "unread"

C23_Witness ==
  /\ env.NODE_ENV = <<" ", "production", " ">>
  /\ isProduction
  /\ config.returned
  /\ config.warp.network = "mainnet"
  /\ config.wallet = JWK("k1")
  /\ env.SERVICE_WALLET_ADDRESS = "A1"
  /\ files[DevWalletPath].exists
  /\ filesRead = {ProdWalletPath}

\* C24: the deploy plugin is attached on every network-selection branch
\* (mainnet, local, testnet; Redis or LevelDB storage) and before the
\* identity step: whenever the wallet step has been reached or has touched
\* anything, the Warp instance has a network, a storage and the plugin.
C24_DeployPluginOnEveryBranch ==
  /\ ( \/ pc \in {"wallet", "done"}
       \/ filesRead # {} \/ wallet # NoKey \/ generated > 0 \/ writes > 0
       \/ devFound # "unread"
       \/ error.kind \in {"config", "load", "generate", "derive", "write"} ) =>
       /\ warp.network \in {"mainnet", "local", "testnet"}
       /\ warp.kv \in {"redis", "leveldb"}
       /\ warp.deploy
  /\ config.returned => config.warp.deploy

C24_Witness ==
  /\ pc = "done"
  /\ redis = "undefined"
  /\ config.returned
  /\ config.warp.network = "testnet"
  /\ config.warp.kv = "leveldb"
  /\ config.warp.deploy

\* C25: over one disconnection episode of the long-lived connection (error
\* events with no 'ready' among them, the rejected initial ping included)
\* initializeRedis and its handlers log at most one warning in total.
C25_OneWarningPerEpisodeOverall ==
  (\A i \in DOMAIN events : events[i] = "error") =>
     lostWarnings + failWarnings <= 1

\* C26: the health probe and the long-lived connection share no state: no
\* step of a checkRedisConnectivity call, whether its probe succeeds, fails
\* or times out, changes the Quiet/Warned flag, the handle or the event and
\* warning history of the long-lived connection, and no 'ready' or 'error'
\* event of that connection changes the snapshot slot or a call in progress.
C26_ProbeAndConnectionShareNoState ==
  [][ /\ (hpc' # hpc \/ probes' # probes \/ late' # late
            \/ healthCheckCache' # healthCheckCache) =>
           /\ hasLoggedDisconnection' = hasLoggedDisconnection
           /\ connection' = connection
           /\ redisLocal' = redisLocal
           /\ redis' = redis
           /\ events' = events
           /\ lostWarnings' = lostWarnings
           /\ failWarnings' = failWarnings
      /\ (events' # events) =>
           /\ healthCheckCache' = healthCheckCache
           /\ probes' = probes
           /\ hpc' = hpc
           /\ ret' = ret ]_vars

C26_Witness ==
  /\ connection = "open"
  /\ redis = "client"
  /\ events = <<"error", "ready">>
  /\ ~hasLoggedDisconnection
  /\ lostWarnings = 1
  /\ hpc[1] = "returned"
  /\ exitPath[1] = "timeout"
  /\ healthCheckCache.set
  /\ ~healthCheckCache.result.connected
  /\ probes = <<"closed">>

\* C27: a call served from the cache leaves the slot, timestamp included, as
\* it was, and the timestamp is only ever set to the clock value of a store;
\* so the snapshot a hit returns is less than 30000 ms old, however often
\* the function is polled.
C27_HitLeavesSlotUntouched ==
  [][ /\ \A c \in Callers :
           (hpc[c] = "idle" /\ hpc'[c] = "returned" /\ exitPath'[c] = "cached") =>
              /\ healthCheckCache' = healthCheckCache
              /\ ret'[c] = healthCheckCache.result
              /\ healthCheckCache.set
              /\ now - healthCheckCache.timestamp < 30000
      /\ healthCheckCache'.timestamp # healthCheckCache.timestamp =>
           healthCheckCache'.timestamp = now ]_vars

C27_Witness ==
  /\ now = 28000
  /\ healthCheckCache.set
  /\ healthCheckCache.timestamp = 0
  /\ \A c \in {1, 2} :
       /\ hpc[c] = "returned"
       /\ exitPath[c] = "cached"
       /\ ret[c] = healthCheckCache.result

\* C28: the slot is empty or holds one whole snapshot with the time of its
\* own write: every computation that returns stores its own result together
\* with the current time, and every change of the slot is such a store, also
\* when recomputations overlap.
C28_SlotReplacedAsAWhole ==
  [][ /\ \A c \in Callers :
           (hpc[c] # "returned" /\ hpc'[c] = "returned" /\ exitPath'[c] # "cached") =>
              healthCheckCache' =
                [set |-> TRUE, result |-> ret'[c], timestamp |-> now]
      /\ healthCheckCache' # healthCheckCache =>
           \E c \in Callers :
              /\ hpc[c] # "returned" /\ hpc'[c] = "returned"
              /\ exitPath'[c] \in {"unconfigured", "success", "error", "timeout"}
              /\ healthCheckCache' =
                   [set |-> TRUE, result |-> ret'[c], timestamp |-> now]
      /\ healthCheckCache'.set =>
           healthCheckCache'.result \in
             { [configured |-> FALSE, connected |-> FALSE, status |-> "not configured"],
               [configured |-> TRUE, connected |-> TRUE, status |-> "ready"],
               [configured |-> TRUE, connected |-> FALSE, status |-> "disconnected"] }
    ]_vars

C28_Witness ==
  /\ overlapped
  /\ hpc[1] = "returned" /\ exitPath[1] = "success" /\ ret[1].connected
  /\ hpc[2] = "returned" /\ exitPath[2] = "timeout" /\ ~ret[2].connected
  /\ startedAt[1] = 0 /\ startedAt[2] = 0
  /\ healthCheckCache = [set |-> TRUE, result |-> ret[2], timestamp |-> 2000]

\* C29: the probe race is decided by the first completion: when the other
\* contender completes later (the timer after the ping settled, the ping
\* after the timer fired) the slot, the returned snapshots and the state of
\* every call are left as they were and nothing is thrown; and a call that
\* awaits its probe returns even if the ping is never answered.
C29_FirstCompletionWins ==
  /\ [][ \A c \in Callers :
           (late[c] # "none" /\ late'[c] = "none") =>
              /\ healthCheckCache' = healthCheckCache
              /\ ret' = ret
              /\ hpc' = hpc
              /\ exitPath' = exitPath
              /\ probes' = probes ]_vars
  /\ \A c \in Callers : (hpc[c] = "awaiting") ~> (hpc[c] = "returned")

C29_Witness ==
  /\ hpc[1] = "returned"
  /\ exitPath[1] = "success"
  /\ ret[1].connected
  /\ late[1] = "none"
  /\ now = startedAt[1] + ProbeTimeoutMs
  /\ healthCheckCache.result.connected
  /\ healthCheckCache.timestamp = startedAt[1]

\* C30 as stated: once a call has stored a snapshot with connected = FALSE,
\* every call that starts less than 30000 ms later returns connected = FALSE
\* and opens no probe.
C30_FalseSnapshotHoldsForWindow ==
  [][ \A c, d \in Callers :
        ( /\ d # c
          /\ hpc[d] = "returned" /\ exitPath[d] \in {"error", "timeout"}
          /\ now - startedAt[d] < 30000
          /\ hpc[c] = "idle" /\ hpc'[c] # "idle" )
        => /\ hpc'[c] = "returned"
           /\ ~ret'[c].connected
           /\ probes' = probes ]_vars

\* C30: a failed or timed-out probe is memoized like a successful one: a
\* call that starts while the slot holds a snapshot with connected = FALSE
\* less than 30000 ms old returns that snapshot and opens no probe, whatever
\* the server would answer now.
C30_FailedProbeMemoized ==
  [][ \A c \in Callers :
        ( /\ hpc[c] = "idle" /\ hpc'[c] # "idle"
          /\ healthCheckCache.set
          /\ ~healthCheckCache.result.connected
          /\ now - healthCheckCache.timestamp < 30000 )
        => /\ hpc'[c] = "returned"
           /\ ret'[c] = healthCheckCache.result
           /\ ~ret'[c].connected
           /\ probes' = probes
           /\ healthCheckCache' = healthCheckCache ]_vars

C30_Witness ==
  /\ hpc[1] = "returned"
  /\ exitPath[1] = "cached"
  /\ ret[1] = [configured |-> TRUE, connected |-> FALSE, status |-> "disconnected"]
  /\ healthCheckCache.result = ret[1]
  /\ now - healthCheckCache.timestamp = 28000
  /\ Len(probes) = 1

\* C31: checkArLocalRunning never throws and always settles; it returns true
\* exactly when the /info request was answered with an OK response before the
\* 1 s abort timer fired, false on a non-OK response, a network error or an
\* abort by the timer; and its timer has been cleared whichever way it left.
C31_LocalProbeAlwaysAnswers ==
  /\ (arlocal = "notrun") <=> (localProbe.result = "none")
  /\ arlocal # "notrun" =>
       /\ localProbe.result \in {"true", "false"}
       /\ (localProbe.result = "true") <=> (arlocal = "ok")
       /\ localProbe.timer = "cleared"
       /\ error.kind # "probe"
       /\ pc # "arlocal"

C31_Witness ==
  /\ arlocal = "error"
  /\ localProbe = [result |-> "false", timer |-> "cleared"]
  /\ pc = "plugin"
  /\ warp.network = "testnet"

\* C32: in development mode a bootstrap fails only because generating the
\* keypair, deriving its address or writing dev-wallet.json failed, and then
\* it returns no config; a config that is returned always carries a keypair,
\* and a generated one has been written to dev-wallet.json.
C32_DevFailuresAreGenerationFailures ==
  ~ProductionMode =>
     /\ pc = "failed" =>
          /\ ~config.returned
          /\ error.kind \in {"generate", "derive", "write"}
          /\ devFound \in {"absent", "unusable"}
          /\ generated = 1
          /\ error.kind = "write" <=> writes = 1
     /\ pc = "done" =>
          /\ config.returned
          /\ error.kind = "none"
          /\ config.wallet.kty = "RSA"
          /\ config.wallet.n \in {"k1", "k2", "k3"}
          /\ generated = 1 =>
               /\ writes = 1
               /\ files[DevWalletPath] = File(JsonStringify(config.wallet))
     /\ config.returned => pc = "done"

C32_Witness ==
  /\ ~ProductionMode
  /\ pc = "failed"
  /\ error.kind = "write"
  /\ devFound = "absent"
  /\ wallet = JWK("k2")
  /\ ~files[DevWalletPath].exists
  /\ ~config.returned

\* C33: in development mode a keypair is generated only when there is no
\* dev-wallet.json: a file that exists is never overwritten, malformed or
\* not.
C33_ExistingDevWalletNeverOverwritten ==
  [][ files[DevWalletPath].exists =>
        /\ files'[DevWalletPath] = files[DevWalletPath]
        /\ generated' <= generated ]_vars

\* C34 as stated: however many calls overlap, at most one probe connection
\* is opened per 30 s window.
C34_OneProbePerWindow ==
  Len(probes) <= 1 + (now \div 30000)

\* C34: calls that do not overlap share the stored snapshot: as long as no
\* two calls have awaited their probes at once, at most one probe connection
\* has been opened per 30 s of elapsed time.
C34_SequentialCallsShareOneProbe ==
  ~overlapped => Len(probes) <= 1 + (now \div 30000)

C34_Witness ==
  /\ ~overlapped
  /\ Len(probes) = 2
  /\ now >= 30000
  /\ hpc[1] = "returned" /\ exitPath[1] \in {"success", "error", "timeout"}
  /\ hpc[2] = "returned" /\ exitPath[2] = "cached"
  /\ ret[2] = ret[1]

\* C36: every snapshot returned or cached has connected only if configured,
\* status 'ready' exactly when connected, 'not configured' exactly when not
\* configured, and 'disconnected' exactly when configured and not connected.
C36_SnapshotFieldsAgree ==
  \A s \in { ret[c] : c \in { d \in Callers : hpc[d] = "returned" } }
           \cup (IF healthCheckCache.set THEN {healthCheckCache.result} ELSE {}) :
     /\ s.connected => s.configured
     /\ (s.status = "ready") <=> s.connected
     /\ (s.status = "not configured") <=> ~s.configured
     /\ (s.status = "disconnected") <=> (s.configured /\ ~s.connected)

C36_Witness ==
  /\ hpc[1] = "returned" /\ ret[1].status = "ready"
  /\ hpc[2] = "returned" /\ ret[2].status = "disconnected"
  /\ exitPath[2] = "error"
  /\ healthCheckCache.set
  /\ healthCheckCache.result = ret[1]
  /\ healthCheckCache.timestamp = 0

\* C35: the long-lived connection is owned by the returned config: it is
\* open only while the bootstrap is still running or its handle is in a
\* returned config; after initializeRedis has returned undefined, and after
\* initializeArweave has failed fatally, no connection is left open.
C35_ConnectionOwnedByReturnedConfig ==
  /\ pc = "failed" => connection # "open"
  /\ redis = "undefined" => connection # "open"
  /\ (pc = "done" /\ connection = "open") => config.redis = "client"

\* C37 as stated: next() is called only when the header starts with
\* 'Bearer ', the token verifies, its hash is stored, and an x-contract-id
\* header, if there is one, equals the payload's contractId.
C37_NextOnlyWhenEveryHeaderMatches ==
  mw.nextCalls > 0 =>
     /\ Len(mw.authorization) >= 2 /\ mw.authorization[1] = "Bearer"
     /\ mw.authorization[2] \in {"t1", "t2"}
     /\ <<"sha256", mw.authorization[2]>> \in mw.instances
     /\ mw.contractId # Unset => mw.contractId = mw.contract.contractId

\* C37: next() is called, once and with req.contract set to the payload,
\* only when the header starts with 'Bearer ', the token verifies, its hash
\* is stored and a non-empty x-contract-id equals the payload's contractId;
\* the first failing check sends one 401 or 403 and runs no later check, sets
\* no req.contract and calls no next(); an unverifiable token causes no lookup.
C37_NextOnlyWhenChecksPass ==
  LET bearer == Len(mw.authorization) >= 2 /\ mw.authorization[1] = "Bearer"
      verified == bearer /\ mw.authorization[2] \in {"t1", "t2"}
      stored == verified /\ <<"sha256", mw.authorization[2]>> \in mw.instances
      matches == stored /\ ( \/ mw.contractId \in {Unset, ""}
                             \/ mw.contractId = mw.payload.contractId )
  IN /\ mw.nextCalls > 0 =>
          /\ matches
          /\ mw.nextCalls = 1
          /\ mw.pc = "next"
          /\ mw.contract = mw.payload /\ mw.contract # NoPayload
          /\ mw.responses = <<>>
     /\ mw.pc = "ended" =>
          /\ ~matches
          /\ mw.nextCalls = 0
          /\ mw.contract = NoPayload
          /\ mw.responses = << IF verified THEN 403 ELSE 401 >>
          /\ mw.verifies = (IF bearer THEN 1 ELSE 0)
          /\ mw.lookups = (IF verified THEN 1 ELSE 0)
     /\ mw.pc = "threw" =>
          mw.nextCalls = 0 /\ mw.contract = NoPayload /\ mw.responses = <<>>
     /\ mw.lookups > 0 => verified
     /\ mw.pc = "next" => mw.nextCalls = 1

C37_Witness ==
  /\ mw.pc = "next"
  /\ mw.authorization = <<"Bearer", "t1">>
  /\ mw.contractId = "c1"
  /\ mw.contract = [contractId |-> "c1", userId |-> "u1"]
  /\ mw.nextCalls = 1
  /\ mw.lookups = 1

\* C38: in every interleaving of POST /contract requests of one user at
\* most one contract is deployed for the user, and a key hash that is stored
\* is never overwritten.
C38_AtMostOneDeploymentPerUser ==
  /\ dp.deployed <= 1
  /\ dp.overwrites = 0

\* C39: a request to a handler of the API-key or instance router that has
\* finished was answered with exactly one res.json call, and the handler
\* neither threw nor dereferenced a missing value.
C39_ExactlyOneResponsePerRequest ==
  rt.pc \in {"ended", "rejected"} =>
     /\ Len(rt.attempts) = 1
     /\ ~rt.dereferenced
     /\ rt.pc = "ended"

====
